---- MODULE Spec2Model ----
(***************************************************************************)
(* Credit ledger and consumption engine of Vega Career AI.                 *)
(*                                                                         *)
(* The ledger lives in PostgreSQL (database/schema.sql) and is mutated by  *)
(* the PL/pgSQL functions of database/functions.sql; the LLM gateway       *)
(* handler calls them around the upstream provider call.                   *)
(*                                                                         *)
(* Amounts are DECIMAL(10,2) credits and are modelled in hundredths of a   *)
(* credit (300 = 3.00 credits).  Time is modelled in whole hours.          *)
(*                                                                         *)
(* Every call of a PL/pgSQL function is one READ COMMITTED transaction.    *)
(* Its first statement is a plain SELECT of the account row (no lock).     *)
(* Its first UPDATE takes the row lock, which the transaction keeps until  *)
(* it commits, and nothing it writes is visible before the commit.  A call *)
(* is therefore two steps: the SELECT (.._select) and everything from the  *)
(* first UPDATE to the commit (.._commit).  An UPDATE of the form          *)
(* "col = col + x" reads the row as committed at that moment, an UPDATE of *)
(* the form "col = v_variable" writes what was computed from the SELECT.   *)
(***************************************************************************)
EXTENDS Integers, Sequences, FiniteSets, TLC

\* ---------------------------------------------------------------- bounds
MaxCalls == 2      \* ledger calls started in one behaviour of Spec
MaxSeqCalls == 3   \* ledger calls made one after the other in one behaviour of SpecSeq
MaxClock == 25     \* last hour the clock reaches
MaxRequests == 2   \* gateway requests received in one behaviour of SpecGateway

\* ------------------------------------------------------- program constants
DAILY_FREE_LIMIT == 10   \* free uses per window
CreditUnit == 100        \* one credit, in hundredths (DECIMAL(10,2))
Day == 24                \* INTERVAL '1 day', in hours

NULL == "NULL"
NoUsageData == [is_null |-> TRUE]     \* p_usage_data IS NULL
NoResult == [none |-> TRUE]           \* no call has returned yet
NoResponse == [status |-> 0]          \* no request has been answered yet
Users == {"u1", "u2"}                 \* p_user_id values; u2 has no credit account
Sessions == {"s1", "s2"}              \* concurrent database sessions
ConsumeAmounts == {100, 300}          \* p_amount of consume_credits
GrantAmounts == {300, -100}           \* p_amount of add_credits
RequestIds == {"req_1", "req_2"}      \* p_usage_data->>'request_id'
PaymentIntents == {"pi_1", "pi_2"}    \* p_stripe_payment_intent_id
SeedFreeUses == {0, 9}                \* free uses already made when observation starts
SeedAmount == 100                     \* p_amount of those uses
SeedPurchases == {0, 300}             \* credits bought after them (0: none)
Instants == {h \in 0..MaxClock : h % Day \in {0, 1}}   \* hours at which the clock is read

VARIABLES
    clock,                 \* NOW(), in hours
    credit_accounts,       \* committed row of each user that has one
    credit_transactions,   \* committed rows in creation order
    llm_usage,             \* committed rows in creation order
    pc,                    \* what each session is executing
    frame,                 \* arguments and PL/pgSQL variables of the running call
    ret,                   \* JSON returned by the session's last call
    expected,              \* balance each user would have had all successful calls applied in full
    calls,                 \* ledger calls started so far
    rate_limits,           \* request_count of each (identifier, window_start) row
    response,              \* HTTP response the gateway sent to the session's last request
    llm_outcome,           \* what the provider did with the session's last upstream call
    requests,              \* gateway requests received so far
    recorded,              \* record_rate_limit_usage calls made for each (identifier, window_start)
    server_clock,          \* Date.now() of the production server, in seconds
    limiter,               \* store of rateLimiters.llmQuery and .payment: hits and reset time of each key
    reached,               \* requests that entered the query handler in each key's current window
    grants                 \* processCreditsGrant calls made so far, by event type

vars == <<clock, credit_accounts, credit_transactions, llm_usage, pc, frame, ret, expected, calls,
          rate_limits, response, llm_outcome, requests, recorded,
          server_clock, limiter, reached, grants>>
ledgerVars == <<credit_accounts, credit_transactions, llm_usage, expected>>
gatewayVars == <<rate_limits, response, llm_outcome, requests, recorded>>
serverVars == <<server_clock, limiter, reached, grants>>

\* ------------------------------------------------------------ schema.sql
\* column defaults of a new credit_accounts row
NewAccount(now) ==
    [balance |-> 0, lifetime_purchased |-> 0, lifetime_consumed |-> 0,
     daily_free_credits_used |-> 0, daily_free_credits_reset_at |-> now]

positive_balance_broken(row) == TRUE
positive_balance(row) == row.balance >= 0

valid_daily_free_credits_broken(row) == row.daily_free_credits_used >= 0
valid_daily_free_credits(row) ==
    row.daily_free_credits_used >= 0 /\ row.daily_free_credits_used <= 10

\* the CHECK constraints of credit_accounts; a violating UPDATE raises
AccountChecks(row) ==
    /\ positive_balance(row)
    /\ row.lifetime_purchased >= 0
    /\ row.lifetime_consumed >= 0
    /\ valid_daily_free_credits(row)

\* SQLERRM of the violation: the name of the constraint
ViolatedCheck(row) ==
    IF ~positive_balance(row) THEN "positive_balance"
    ELSE IF ~(row.lifetime_purchased >= 0) THEN "positive_lifetime_purchased"
    ELSE IF ~(row.lifetime_consumed >= 0) THEN "positive_lifetime_consumed"
    ELSE "valid_daily_free_credits"

\* CHECK positive_credits of llm_usage
UsageChecks(credits) == credits >= 0

\* ------------------------------------------------- functions.sql, shared
\* IF v_account.daily_free_credits_reset_at < NOW() - INTERVAL '1 day'
ResetDue(v_account, now) == v_account.daily_free_credits_reset_at < now - Day

\* the reset UPDATE: WHERE user_id = p_user_id, whatever the row holds by now
ResetRow(row, now) ==
    [row EXCEPT !.daily_free_credits_used = 0, !.daily_free_credits_reset_at = now]

\* UPDATE credit_accounts SET .. WHERE user_id = p_user_id
UpdateAccount_broken(rows, p_user_id, row) == [u \in DOMAIN rows |-> row]
UpdateAccount(rows, p_user_id, row) == [rows EXCEPT ![p_user_id] = row]

Max(a, b) == IF a >= b THEN a ELSE b
Min(a, b) == IF a <= b THEN a ELSE b

\* ------------------------------------------- functions.sql, consume_credits
\* amount column of the consumption transaction
ConsumptionAmount_broken(p_amount) == p_amount
ConsumptionAmount(p_amount) == -p_amount

\* transaction_type of the row consume_credits inserts
TransactionType_broken(v_use_free_credits) == "consumption"
TransactionType(v_use_free_credits) ==
    IF v_use_free_credits THEN "daily_free" ELSE "consumption"

\* EXCEPTION WHEN OTHERS: the writes of the inner block are undone, the
\* reset UPDATE made before the block stays
InnerRollback_broken(row1, row2) == row2
InnerRollback(row1, row2) == row1

\* Everything consume_credits does after its SELECT.  cur is the row as
\* committed now, v_account the row the SELECT returned, now the NOW() of
\* the transaction, txid/usid the ids the inserts would get.  Yields the
\* row to commit, the rows to insert and the JSON result.
consume_credits_body(cur, v_account, now, p_user_id, p_amount, p_usage_data, txid, usid) ==
    LET reset == ResetDue(v_account, now)
        row1 == IF reset THEN ResetRow(cur, now) ELSE cur
        v_used == IF reset THEN 0 ELSE v_account.daily_free_credits_used
        v_daily_free_remaining == DAILY_FREE_LIMIT - v_used
        v_use_free_credits == v_account.balance < p_amount /\ v_daily_free_remaining > 0
        v_new_balance == IF v_use_free_credits THEN v_account.balance
                         ELSE v_account.balance - p_amount
        row2 == IF v_use_free_credits
                THEN [row1 EXCEPT !.daily_free_credits_used = @ + 1,
                                  !.lifetime_consumed = @ + p_amount]
                ELSE [row1 EXCEPT !.balance = v_new_balance,
                                  !.lifetime_consumed = @ + p_amount]
        tx == [id |-> txid, user_id |-> p_user_id,
               transaction_type |-> TransactionType(v_use_free_credits),
               amount |-> IF v_use_free_credits THEN p_amount ELSE ConsumptionAmount(p_amount),
               balance_after |-> v_new_balance,
               stripe_payment_intent_id |-> NULL]
        us == [id |-> usid, user_id |-> p_user_id, transaction_id |-> txid,
               credits_consumed |-> p_amount,
               request_id |-> IF p_usage_data # NoUsageData THEN p_usage_data.request_id ELSE NULL,
               status |-> IF p_usage_data # NoUsageData THEN p_usage_data.status ELSE NULL]
        raised == \/ ~AccountChecks(row2)
                  \/ (p_usage_data # NoUsageData /\ ~UsageChecks(p_amount))
    IN  IF v_account.balance < p_amount /\ ~v_use_free_credits
        THEN [row |-> row1, txs |-> <<>>, usages |-> <<>>,
              json |-> [success |-> FALSE, error |-> "Insufficient credits",
                        required |-> p_amount, available |-> v_account.balance,
                        daily_free_remaining |-> v_daily_free_remaining]]
        ELSE IF raised
        THEN [row |-> InnerRollback(row1, row2), txs |-> <<>>, usages |-> <<>>,
              json |-> [success |-> FALSE,
                        error |-> IF ~AccountChecks(row2) THEN ViolatedCheck(row2)
                                  ELSE "positive_credits"]]
        ELSE [row |-> row2, txs |-> <<tx>>,
              usages |-> IF p_usage_data # NoUsageData THEN <<us>> ELSE <<>>,
              json |-> [success |-> TRUE, new_balance |-> v_new_balance,
                        used_free_credit |-> v_use_free_credits,
                        transaction_id |-> txid,
                        usage_id |-> IF p_usage_data # NoUsageData THEN usid ELSE 0,
                        daily_free_remaining |->
                            Max(0, v_daily_free_remaining - (IF v_use_free_credits THEN 1 ELSE 0))]]

\* ----------------------------------------------- functions.sql, add_credits
\* v_new_balance := v_account.balance + p_amount
add_credits_body(cur, v_account, p_user_id, p_amount, p_stripe_payment_intent_id, txid) ==
    LET v_new_balance == v_account.balance + p_amount
        row2 == [cur EXCEPT !.balance = v_new_balance,
                            !.lifetime_purchased = @ + p_amount]
        tx == [id |-> txid, user_id |-> p_user_id, transaction_type |-> "purchase",
               amount |-> p_amount, balance_after |-> v_new_balance,
               stripe_payment_intent_id |-> p_stripe_payment_intent_id]
    IN  IF ~AccountChecks(row2)
        THEN [row |-> cur, txs |-> <<>>,
              json |-> [success |-> FALSE, error |-> ViolatedCheck(row2)]]
        ELSE [row |-> row2, txs |-> <<tx>>,
              json |-> [success |-> TRUE, new_balance |-> v_new_balance,
                        transaction_id |-> txid, amount_added |-> p_amount]]

\* ----------------------------------- functions.sql, get_user_credit_balance
get_user_credit_balance_body_broken(cur, v_account, now) ==
    [row |-> IF ResetDue(v_account, now) THEN ResetRow(cur, now) ELSE cur,
     json |-> [success |-> TRUE, balance |-> v_account.balance,
               daily_free_credits_remaining |-> 10,
               lifetime_purchased |-> v_account.lifetime_purchased,
               lifetime_consumed |-> v_account.lifetime_consumed]]
get_user_credit_balance_body(cur, v_account, now) ==
    LET reset == ResetDue(v_account, now)
        v_used == IF reset THEN 0 ELSE v_account.daily_free_credits_used
        v_daily_free_remaining == 10 - v_used
    IN  [row |-> IF reset THEN ResetRow(cur, now) ELSE cur,
         json |-> [success |-> TRUE, balance |-> v_account.balance,
                   daily_free_credits_remaining |-> Max(0, v_daily_free_remaining),
                   lifetime_purchased |-> v_account.lifetime_purchased,
                   lifetime_consumed |-> v_account.lifetime_consumed]]

NotFound == [success |-> FALSE, error |-> "Credit account not found"]

\* ------------------------------------------------------------------ Init
\* The account of u1 as create_user_account made it at hour 0, followed by
\* n free uses made through consume_credits without usage data.
RECURSIVE SeedUses(_)
SeedUses(n) ==
    IF n = 0
    THEN [row |-> NewAccount(0), txs |-> <<>>]
    ELSE LET s == SeedUses(n - 1)
             r == consume_credits_body(s.row, s.row, 0, "u1", SeedAmount, NoUsageData,
                                       Len(s.txs) + 1, 0)
         IN  [row |-> r.row, txs |-> s.txs \o r.txs]

\* ... and then by one add_credits of g credits, when g is not 0
Seed(n, g) ==
    LET s == SeedUses(n)
        r == add_credits_body(s.row, s.row, "u1", g, "pi_0", Len(s.txs) + 1)
    IN  IF g = 0 THEN s ELSE [row |-> r.row, txs |-> s.txs \o r.txs]

Idle == [op |-> "none"]

\* the production server has just started: the limiter's store is empty
ServerStart ==
    /\ server_clock = 0
    /\ limiter = [k \in {} |-> 0]
    /\ reached = [k \in {} |-> 0]
    /\ grants = [t \in {} |-> 0]

InitLedger(n, g) ==
    /\ clock = 0
    /\ credit_accounts = [u \in {"u1"} |-> Seed(n, g).row]
    /\ credit_transactions = Seed(n, g).txs
    /\ llm_usage = <<>>
    /\ pc = [s \in Sessions |-> "idle"]
    /\ frame = [s \in Sessions |-> Idle]
    /\ ret = [s \in Sessions |-> NoResult]
    /\ expected = [u \in Users |-> IF u = "u1" THEN Seed(n, g).row.balance ELSE 0]
    /\ calls = 0
    /\ response = [s \in Sessions |-> NoResponse]
    /\ llm_outcome = [s \in Sessions |-> "none"]
    /\ requests = 0

\* rate_limits is empty
Init ==
    /\ \E n \in SeedFreeUses, g \in SeedPurchases : InitLedger(n, g)
    /\ ServerStart
    /\ rate_limits = [k \in {} |-> 0]
    /\ recorded = [k \in {} |-> 0]

\* --------------------------------------------------------------- actions
\* time passes
Tick ==
    /\ \E t \in Instants : t > clock /\ clock' = t
    /\ UNCHANGED <<serverVars, ledgerVars, pc, frame, ret, calls, gatewayVars>>

\* SELECT * INTO v_account ... ; IF NOT FOUND THEN RETURN
SelectAccount(s, op, args, limit) ==
    /\ pc[s] = "idle"
    /\ calls < limit
    /\ calls' = calls + 1
    /\ IF args.p_user_id \notin DOMAIN credit_accounts
       THEN /\ ret' = [ret EXCEPT ![s] = NotFound]
            /\ UNCHANGED <<pc, frame>>
       ELSE /\ pc' = [pc EXCEPT ![s] = op]
            /\ frame' = [frame EXCEPT ![s] =
                   [op |-> op, args |-> args, now |-> clock,
                    v_account |-> credit_accounts[args.p_user_id]]]
            /\ ret' = [ret EXCEPT ![s] = NoResult]
    /\ UNCHANGED <<serverVars, clock, ledgerVars, gatewayVars>>

consume_credits_call(s, limit) ==
    \E u \in Users, a \in ConsumeAmounts, r \in RequestIds :
        SelectAccount(s, "consume_credits",
            [p_user_id |-> u, p_amount |-> a,
             p_usage_data |-> [request_id |-> r, status |-> "completed"]], limit)

consume_credits_select(s) == consume_credits_call(s, MaxCalls)

consume_credits_commit(s) ==
    /\ pc[s] = "consume_credits"
    /\ LET f == frame[s]
           u == f.args.p_user_id
           r == consume_credits_body(credit_accounts[u], f.v_account, f.now, u,
                    f.args.p_amount, f.args.p_usage_data,
                    Len(credit_transactions) + 1, Len(llm_usage) + 1)
       IN  /\ credit_accounts' = UpdateAccount(credit_accounts, u, r.row)
           /\ credit_transactions' = credit_transactions \o r.txs
           /\ llm_usage' = llm_usage \o r.usages
           /\ ret' = [ret EXCEPT ![s] = r.json]
           /\ expected' = [expected EXCEPT ![u] =
                  IF r.json.success /\ ~r.json.used_free_credit
                  THEN @ - f.args.p_amount ELSE @]
    /\ pc' = [pc EXCEPT ![s] = "idle"]
    /\ frame' = [frame EXCEPT ![s] = Idle]
    /\ UNCHANGED <<serverVars, clock, calls, gatewayVars>>

add_credits_call(s, limit) ==
    \E u \in Users, a \in GrantAmounts, pi \in PaymentIntents :
        SelectAccount(s, "add_credits",
            [p_user_id |-> u, p_amount |-> a, p_stripe_payment_intent_id |-> pi], limit)

add_credits_select(s) == add_credits_call(s, MaxCalls)

add_credits_commit(s) ==
    /\ pc[s] = "add_credits"
    /\ LET f == frame[s]
           u == f.args.p_user_id
           r == add_credits_body(credit_accounts[u], f.v_account, u, f.args.p_amount,
                    f.args.p_stripe_payment_intent_id, Len(credit_transactions) + 1)
       IN  /\ credit_accounts' = UpdateAccount(credit_accounts, u, r.row)
           /\ credit_transactions' = credit_transactions \o r.txs
           /\ ret' = [ret EXCEPT ![s] = r.json]
           /\ expected' = [expected EXCEPT ![u] =
                  IF r.json.success THEN @ + f.args.p_amount ELSE @]
    /\ pc' = [pc EXCEPT ![s] = "idle"]
    /\ frame' = [frame EXCEPT ![s] = Idle]
    /\ UNCHANGED <<serverVars, clock, llm_usage, calls, gatewayVars>>

get_user_credit_balance_call(s, limit) ==
    \E u \in Users :
        SelectAccount(s, "get_user_credit_balance", [p_user_id |-> u], limit)

get_user_credit_balance_select(s) == get_user_credit_balance_call(s, MaxCalls)

get_user_credit_balance_commit(s) ==
    /\ pc[s] = "get_user_credit_balance"
    /\ LET f == frame[s]
           u == f.args.p_user_id
           r == get_user_credit_balance_body(credit_accounts[u], f.v_account, f.now)
       IN  /\ credit_accounts' = UpdateAccount(credit_accounts, u, r.row)
           /\ ret' = [ret EXCEPT ![s] = r.json]
    /\ pc' = [pc EXCEPT ![s] = "idle"]
    /\ frame' = [frame EXCEPT ![s] = Idle]
    /\ UNCHANGED <<serverVars, clock, credit_transactions, llm_usage, expected, calls, gatewayVars>>

Next ==
    \/ Tick
    \/ \E s \in Sessions : consume_credits_select(s)
    \/ \E s \in Sessions : consume_credits_commit(s)
    \/ \E s \in Sessions : add_credits_select(s)
    \/ \E s \in Sessions : add_credits_commit(s)
    \/ \E s \in Sessions : get_user_credit_balance_select(s)
    \/ \E s \in Sessions : get_user_credit_balance_commit(s)

Spec == Init /\ [][Next]_vars

\* The same calls when both users have a credit account: u2's is the row
\* create_user_account made at hour 0.
InitTwo ==
    /\ clock = 0
    /\ credit_accounts = [u \in Users |-> IF u = "u1" THEN Seed(0, 300).row ELSE NewAccount(0)]
    /\ credit_transactions = Seed(0, 300).txs
    /\ llm_usage = <<>>
    /\ pc = [s \in Sessions |-> "idle"]
    /\ frame = [s \in Sessions |-> Idle]
    /\ ret = [s \in Sessions |-> NoResult]
    /\ expected = [u \in Users |-> IF u = "u1" THEN Seed(0, 300).row.balance ELSE 0]
    /\ calls = 0
    /\ response = [s \in Sessions |-> NoResponse]
    /\ llm_outcome = [s \in Sessions |-> "none"]
    /\ requests = 0
    /\ ServerStart
    /\ rate_limits = [k \in {} |-> 0]
    /\ recorded = [k \in {} |-> 0]

MaxTwoCalls == 2   \* ledger calls started in one behaviour of SpecTwo

\* each session works for its own user
SessionUser(s) == IF s = "s1" THEN "u1" ELSE "u2"

two_consume_credits_select(s) ==
    \E a \in ConsumeAmounts, r \in RequestIds :
        SelectAccount(s, "consume_credits",
            [p_user_id |-> SessionUser(s), p_amount |-> a,
             p_usage_data |-> [request_id |-> r, status |-> "completed"]], MaxTwoCalls)

two_add_credits_select(s) ==
    \E a \in GrantAmounts, pi \in PaymentIntents :
        SelectAccount(s, "add_credits",
            [p_user_id |-> SessionUser(s), p_amount |-> a,
             p_stripe_payment_intent_id |-> pi], MaxTwoCalls)

two_get_user_credit_balance_select(s) ==
    SelectAccount(s, "get_user_credit_balance", [p_user_id |-> SessionUser(s)], MaxTwoCalls)

NextTwo ==
    \/ Tick
    \/ \E s \in Sessions : two_consume_credits_select(s)
    \/ \E s \in Sessions : consume_credits_commit(s)
    \/ \E s \in Sessions : two_add_credits_select(s)
    \/ \E s \in Sessions : add_credits_commit(s)
    \/ \E s \in Sessions : two_get_user_credit_balance_select(s)
    \/ \E s \in Sessions : get_user_credit_balance_commit(s)

SpecTwo == InitTwo /\ [][NextTwo]_vars

\* The same calls made one after the other by a single session.
SeqSession == "s1"

seq_consume_credits_select == consume_credits_call(SeqSession, MaxSeqCalls)
seq_consume_credits_commit == consume_credits_commit(SeqSession)
seq_add_credits_select == add_credits_call(SeqSession, MaxSeqCalls)
seq_add_credits_commit == add_credits_commit(SeqSession)
seq_get_user_credit_balance_select == get_user_credit_balance_call(SeqSession, MaxSeqCalls)
seq_get_user_credit_balance_commit == get_user_credit_balance_commit(SeqSession)

NextSeq ==
    \/ Tick
    \/ seq_consume_credits_select
    \/ seq_consume_credits_commit
    \/ seq_add_credits_select
    \/ seq_add_credits_commit
    \/ seq_get_user_credit_balance_select
    \/ seq_get_user_credit_balance_commit

SpecSeq == Init /\ [][NextSeq]_vars


\* ===================================================== rate limiting (SQL)
ClientIP == "ip_1"   \* x-forwarded-for of every request

\* schema.sql declares no UNIQUE constraint or index on (user_id, window_start)
\* or (ip_address, window_start) of rate_limits
rate_limits_unique == FALSE

RateKey(p_user_id, p_ip_address, now) ==
    <<IF p_user_id # NULL THEN p_user_id ELSE p_ip_address, now>>

\* one more call counted for key
CountCall(counts, key) ==
    [k \in DOMAIN counts \cup {key} |->
        IF k = key THEN (IF key \in DOMAIN counts THEN counts[key] + 1 ELSE 1)
        ELSE counts[k]]

\* functions.sql, check_rate_limit; date_trunc('hour', NOW()) is the hour itself
check_rate_limit_broken(rows, p_user_id, p_ip_address, now) ==
    LET v_identifier_type == IF p_user_id # NULL THEN "user" ELSE "ip"
        v_hourly_limit == IF p_user_id # NULL THEN 100 ELSE 10
        key == RateKey(p_user_id, p_ip_address, now)
        v_current_count == IF key \in DOMAIN rows THEN rows[key] ELSE 0
    IN  IF v_current_count > v_hourly_limit
        THEN [allowed |-> FALSE, current_count |-> v_current_count, limit |-> v_hourly_limit,
              reset_time |-> now + 1, identifier_type |-> v_identifier_type]
        ELSE [allowed |-> TRUE, current_count |-> v_current_count, limit |-> v_hourly_limit,
              remaining |-> v_hourly_limit - v_current_count,
              reset_time |-> now + 1, identifier_type |-> v_identifier_type]
check_rate_limit(rows, p_user_id, p_ip_address, now) ==
    LET v_identifier_type == IF p_user_id # NULL THEN "user" ELSE "ip"
        v_hourly_limit == IF p_user_id # NULL THEN 100 ELSE 10
        key == RateKey(p_user_id, p_ip_address, now)
        v_current_count == IF key \in DOMAIN rows THEN rows[key] ELSE 0
    IN  IF v_current_count >= v_hourly_limit
        THEN [allowed |-> FALSE, current_count |-> v_current_count, limit |-> v_hourly_limit,
              reset_time |-> now + 1, identifier_type |-> v_identifier_type]
        ELSE [allowed |-> TRUE, current_count |-> v_current_count, limit |-> v_hourly_limit,
              remaining |-> v_hourly_limit - v_current_count,
              reset_time |-> now + 1, identifier_type |-> v_identifier_type]

\* functions.sql, record_rate_limit_usage: INSERT .. ON CONFLICT (.., window_start)
\* DO UPDATE; without a matching unique index the statement raises and the
\* function returns FALSE (EXCEPTION WHEN OTHERS)
record_rate_limit_usage(rows, p_user_id, p_ip_address, now) ==
    LET key == RateKey(p_user_id, p_ip_address, now)
        upserted == [k \in DOMAIN rows \cup {key} |->
                        IF k = key THEN (IF key \in DOMAIN rows THEN rows[key] + 1 ELSE 1)
                        ELSE rows[k]]
    IN  IF rate_limits_unique
        THEN [rows |-> upserted, result |-> TRUE]
        ELSE [rows |-> rows, result |-> FALSE]

\* ============================================================ LLM gateway
\* seed row of llm_provider_configs: credits per 1k tokens in thousandths,
\* costs in USD per 1M tokens
llm_provider_configs ==
    [m \in {"claude-3-opus", "claude-3-sonnet", "gpt-4-turbo", "sonar-pro"} |->
        [credits_per_1k_milli |->
             CASE m = "claude-3-opus" -> 500 [] m = "claude-3-sonnet" -> 100
               [] m = "gpt-4-turbo" -> 300 [] m = "sonar-pro" -> 50,
         input_cost_per_1m_tokens |->
             CASE m = "claude-3-opus" -> 15 [] m = "claude-3-sonnet" -> 3
               [] m = "gpt-4-turbo" -> 10 [] m = "sonar-pro" -> 1,
         output_cost_per_1m_tokens |->
             CASE m = "claude-3-opus" -> 75 [] m = "claude-3-sonnet" -> 15
               [] m = "gpt-4-turbo" -> 30 [] m = "sonar-pro" -> 3]]

RegisteredUsers == {"u1"}                            \* rows of users
RequestUsers == {"u1", "u2", NULL}                   \* req.body.user_id
RequestModels == {"claude-3-opus", "no-such-model", NULL}   \* req.body.model
RequestMethods == {"POST", "GET"}                    \* req.method
MessageChars == {0, 28000, 124000}                   \* total length of messages[].content
DefaultMaxTokens == 1000                             \* maxTokens = 1000
LLMOutcomes == {"completed", "failed", "timeout", "cancelled"}
ActualUsages == {[prompt_tokens |-> 0, completion_tokens |-> 0],
                 [prompt_tokens |-> 2000, completion_tokens |-> 2000],
                 [prompt_tokens |-> 6000, completion_tokens |-> 6000]}

CeilDiv(a, b) == (a + b - 1) \div b

\* estimateTokens(messages, maxTokens = 1000)
estimateTokens(chars, maxTokens) ==
    LET promptTokens == CeilDiv(chars, 4)
        completionTokens == Min(maxTokens, CeilDiv(promptTokens, 2))
    IN  [prompt_tokens |-> promptTokens, completion_tokens |-> completionTokens,
         total_tokens |-> promptTokens + completionTokens]

\* calculateCreditsRequired(tokens, config), in hundredths of a credit:
\* ceil(weightedTokens / 1000 * credits_per_1k_tokens * 100), with
\* weightedTokens = (prompt * input + completion * output) / (input + output)
calculateCreditsRequired_broken(tokens, config) ==
    CeilDiv((tokens.prompt_tokens + tokens.completion_tokens) * config.credits_per_1k_milli,
            20000)
calculateCreditsRequired(tokens, config) ==
    CeilDiv((tokens.prompt_tokens * config.input_cost_per_1m_tokens
               + tokens.completion_tokens * config.output_cost_per_1m_tokens)
            * config.credits_per_1k_milli,
            (config.input_cost_per_1m_tokens + config.output_cost_per_1m_tokens) * 10000)

\* totalAvailable < estimatedCredits
InsufficientCredits_broken(balanceResult, estimatedCredits) ==
    balanceResult.balance < estimatedCredits
InsufficientCredits(balanceResult, estimatedCredits) ==
    balanceResult.balance + balanceResult.daily_free_credits_remaining * CreditUnit
        < estimatedCredits

\* the llm_usage row of the catch block
FailedUsage(user_id, usid) ==
    [id |-> usid, user_id |-> user_id, transaction_id |-> 0, credits_consumed |-> 0,
     request_id |-> NULL, status |-> "failed"]

\* return res.status(..).json(..): the request is over
Respond_broken(s, r) ==
    /\ response' = [response EXCEPT ![s] = r]
    /\ UNCHANGED <<pc, frame>>
Respond(s, r) ==
    /\ response' = [response EXCEPT ![s] = r]
    /\ pc' = [pc EXCEPT ![s] = "idle"]
    /\ frame' = [frame EXCEPT ![s] = Idle]

\* catch (error): log the failed usage when the request names a user, answer
\* 500; the insert fails (and is only logged) when user_id is no row of users
GatewayCatch(s, user_id) ==
    /\ llm_usage' = IF user_id # NULL /\ user_id \in RegisteredUsers
                    THEN Append(llm_usage, FailedUsage(user_id, Len(llm_usage) + 1))
                    ELSE llm_usage
    /\ Respond(s, [status |-> 500, error |-> "Internal server error"])

\* The handler up to its first await on the ledger: method and field
\* validation, check_rate_limit, getProviderConfig, the estimate and, for a
\* paid query of a user, the SELECT of get_user_credit_balance.
gateway_receive_from(s, methods, users, models) ==
    /\ pc[s] = "idle"
    /\ requests < MaxRequests
    /\ requests' = requests + 1
    /\ llm_outcome' = [llm_outcome EXCEPT ![s] = "none"]
    /\ \E method \in methods, user_id \in users, model \in models, chars \in MessageChars :
        LET rateLimitResult == check_rate_limit(rate_limits, user_id, ClientIP, clock)
            req == [user_id |-> user_id, model |-> model, chars |-> chars]
        IN  IF method # "POST"
            THEN /\ Respond(s, [status |-> 405, error |-> "Method not allowed"])
                 /\ UNCHANGED <<ledgerVars, ret>>
            ELSE IF model = NULL
            THEN /\ Respond(s, [status |-> 400, error |-> "Missing required fields"])
                 /\ UNCHANGED <<ledgerVars, ret>>
            ELSE IF ~rateLimitResult.allowed
            THEN /\ Respond(s, [status |-> 429, error |-> "Rate limit exceeded",
                                rate_limit |-> rateLimitResult])
                 /\ UNCHANGED <<ledgerVars, ret>>
            ELSE IF model \notin DOMAIN llm_provider_configs
            THEN /\ GatewayCatch(s, user_id)
                 /\ UNCHANGED <<credit_accounts, credit_transactions, expected, ret>>
            ELSE LET config == llm_provider_configs[model]
                     estimatedCredits ==
                         calculateCreditsRequired(estimateTokens(chars, DefaultMaxTokens), config)
                     f == [op |-> "gateway", req |-> req, config |-> config,
                           estimatedCredits |-> estimatedCredits,
                           now |-> clock, v_account |-> NoResult, n |-> requests + 1]
                 IN  IF user_id # NULL /\ estimatedCredits > 0
                     THEN IF user_id \notin DOMAIN credit_accounts
                          THEN /\ Respond(s, [status |-> 400, error |-> NotFound.error])
                               /\ ret' = [ret EXCEPT ![s] = NotFound]
                               /\ UNCHANGED ledgerVars
                          ELSE /\ pc' = [pc EXCEPT ![s] = "gw_balance"]
                               /\ frame' = [frame EXCEPT ![s] =
                                      [f EXCEPT !.v_account = credit_accounts[user_id]]]
                               /\ UNCHANGED <<ledgerVars, ret, response>>
                     ELSE /\ pc' = [pc EXCEPT ![s] = "gw_llm"]
                          /\ frame' = [frame EXCEPT ![s] = f]
                          /\ UNCHANGED <<ledgerVars, ret, response>>
    /\ UNCHANGED <<serverVars, clock, calls, rate_limits, recorded>>

gateway_receive(s) == gateway_receive_from(s, RequestMethods, RequestUsers, RequestModels)

\* get_user_credit_balance from its reset UPDATE on, then the credit check
\* of the handler: 402 or on to the provider
gateway_authorize(s) ==
    /\ pc[s] = "gw_balance"
    /\ LET f == frame[s]
           u == f.req.user_id
           r == get_user_credit_balance_body(credit_accounts[u], f.v_account, f.now)
           balanceResult == r.json
       IN  /\ credit_accounts' = UpdateAccount(credit_accounts, u, r.row)
           /\ ret' = [ret EXCEPT ![s] = balanceResult]
           /\ IF InsufficientCredits(balanceResult, f.estimatedCredits)
              THEN Respond(s, [status |-> 402, error |-> "Insufficient credits",
                               required |-> f.estimatedCredits,
                               available |-> balanceResult.balance,
                               daily_free_remaining |->
                                   balanceResult.daily_free_credits_remaining])
              ELSE /\ pc' = [pc EXCEPT ![s] = "gw_llm"]
                   /\ UNCHANGED <<frame, response>>
    /\ UNCHANGED <<serverVars, clock, credit_transactions, llm_usage, expected, calls,
                   rate_limits, llm_outcome, requests, recorded>>

\* request_id: data.id, the id the provider gave its n-th response
ProviderRequestId(n) == "req_" \o ToString(n)

\* await callLLMProvider(llmRequest): the provider answers with its usage
\* and request id, or the call throws (HTTP error, timeout, abort).  On an
\* answer the handler computes the actual credits and, for a user, calls
\* consume_credits, whose SELECT is taken here.
gateway_llm(s) ==
    /\ pc[s] = "gw_llm"
    /\ \E outcome \in LLMOutcomes, usage \in ActualUsages :
        LET f == frame[s]
            request_id == ProviderRequestId(f.n)
            u == f.req.user_id
            actualCredits == calculateCreditsRequired(usage, f.config)
            args == [p_user_id |-> u, p_amount |-> actualCredits,
                     p_usage_data |-> [request_id |-> request_id, status |-> "completed"]]
        IN  /\ llm_outcome' = [llm_outcome EXCEPT ![s] = outcome]
            /\ IF outcome # "completed"
               THEN /\ GatewayCatch(s, u)
                    /\ UNCHANGED ret
               ELSE IF u = NULL
               THEN /\ pc' = [pc EXCEPT ![s] = "gw_record"]
                    /\ frame' = [frame EXCEPT ![s] =
                           [op |-> "gateway", req |-> f.req, config |-> f.config,
                            estimatedCredits |-> f.estimatedCredits, now |-> clock,
                            v_account |-> NoResult, args |-> args]]
                    /\ UNCHANGED <<llm_usage, ret, response>>
               ELSE IF u \notin DOMAIN credit_accounts
               THEN /\ ret' = [ret EXCEPT ![s] = NotFound]
                    /\ Respond(s, [status |-> 402, error |-> "Credit consumption failed",
                                   details |-> NotFound.error])
                    /\ UNCHANGED llm_usage
               ELSE /\ pc' = [pc EXCEPT ![s] = "gw_consume"]
                    /\ frame' = [frame EXCEPT ![s] =
                           [op |-> "gateway", req |-> f.req, config |-> f.config,
                            estimatedCredits |-> f.estimatedCredits, now |-> clock,
                            v_account |-> credit_accounts[u], args |-> args]]
                    /\ UNCHANGED <<llm_usage, ret, response>>
    /\ UNCHANGED <<serverVars, clock, credit_accounts, credit_transactions, expected, calls,
                   rate_limits, requests, recorded>>

\* consume_credits from its first UPDATE on, then
\* if (!consumptionResult.success) return res.status(402)
gateway_consume(s) ==
    /\ pc[s] = "gw_consume"
    /\ LET f == frame[s]
           u == f.args.p_user_id
           r == consume_credits_body(credit_accounts[u], f.v_account, f.now, u,
                    f.args.p_amount, f.args.p_usage_data,
                    Len(credit_transactions) + 1, Len(llm_usage) + 1)
       IN  /\ credit_accounts' = UpdateAccount(credit_accounts, u, r.row)
           /\ credit_transactions' = credit_transactions \o r.txs
           /\ llm_usage' = llm_usage \o r.usages
           /\ ret' = [ret EXCEPT ![s] = r.json]
           /\ expected' = [expected EXCEPT ![u] =
                  IF r.json.success /\ ~r.json.used_free_credit
                  THEN @ - f.args.p_amount ELSE @]
           /\ IF ~r.json.success
              THEN Respond(s, [status |-> 402, error |-> "Credit consumption failed",
                               details |-> r.json.error])
              ELSE /\ pc' = [pc EXCEPT ![s] = "gw_record"]
                   /\ UNCHANGED <<frame, response>>
    /\ UNCHANGED <<serverVars, clock, calls, rate_limits, llm_outcome, requests, recorded>>

\* await recordRateLimitUsage(user_id, clientIP); return res.status(200)
gateway_record(s) ==
    /\ pc[s] = "gw_record"
    /\ LET f == frame[s]
           u == f.req.user_id
       IN  /\ rate_limits' = record_rate_limit_usage(rate_limits, u, ClientIP, clock).rows
           /\ recorded' = CountCall(recorded, RateKey(u, ClientIP, clock))
           /\ Respond(s, IF u # NULL
                         THEN [status |-> 200,
                               credits_consumed |-> f.args.p_amount,
                               credits_estimated |-> f.estimatedCredits,
                               credit_info |->
                                   [new_balance |-> ret[s].new_balance,
                                    used_free_credit |-> ret[s].used_free_credit,
                                    daily_free_remaining |-> ret[s].daily_free_remaining]]
                         ELSE [status |-> 200,
                               credits_consumed |-> f.args.p_amount,
                               credits_estimated |-> f.estimatedCredits])
    /\ UNCHANGED <<serverVars, clock, ledgerVars, ret, calls, llm_outcome, requests>>

\* requests handled one after the other
GatewaySession == "s1"

gateway_receive_request == gateway_receive(GatewaySession)
gateway_check_credits == gateway_authorize(GatewaySession)
gateway_call_provider == gateway_llm(GatewaySession)
gateway_consume_credits == gateway_consume(GatewaySession)
gateway_send_response == gateway_record(GatewaySession)

NextGateway ==
    \/ Tick
    \/ gateway_receive_request
    \/ gateway_check_credits
    \/ gateway_call_provider
    \/ gateway_consume_credits
    \/ gateway_send_response

SpecGateway == Init /\ [][NextGateway]_vars

\* ===================================================== rate limiter alone
MaxRateCalls == 3   \* rate limiter calls made in one behaviour of SpecRate

\* request_count of the rows rate_limits holds for hour 0 when observation
\* starts (0: no row); check_rate_limit reads whatever rows the table holds
SeedUserRequests == {0, 99, 100}
SeedIpRequests == {0, 9, 10}
SeedRateLimits(nu, ni) ==
    [k \in {<<"u1", 0>> : x \in {nu} \ {0}} \cup {<<ClientIP, 0>> : x \in {ni} \ {0}} |->
        IF k[1] = "u1" THEN nu ELSE ni]

InitRate ==
    /\ InitLedger(0, 0)
    /\ ServerStart
    /\ \E nu \in SeedUserRequests, ni \in SeedIpRequests :
          /\ rate_limits = SeedRateLimits(nu, ni)
          /\ recorded = SeedRateLimits(nu, ni)

\* the limits and checkRateLimit of class RateLimitService
RateLimitService_limits ==
    [anonymous |-> [hourly |-> 5, daily |-> 15, daily_unlimited |-> FALSE],
     free_user |-> [hourly |-> 10, daily |-> 20, daily_unlimited |-> FALSE],
     paid_user |-> [hourly |-> 100, daily |-> 0, daily_unlimited |-> TRUE]]

UserTypes == DOMAIN RateLimitService_limits   \* what getUserType returns
HourlyUsages == {4, 5, 100}                   \* what getCurrentUsage returns
DailyUsages == {14, 15}

RateLimitService_checkRateLimit(currentUsage, limits) ==
    [allowed |-> /\ currentUsage.hourly < limits.hourly
                 /\ (limits.daily_unlimited \/ currentUsage.daily < limits.daily),
     remaining_hourly |-> Max(0, limits.hourly - currentUsage.hourly)]

RateSession == "s1"
RateUsers == {"u1", NULL}    \* p_user_id; NULL: the caller is known by its IP

\* SELECT check_rate_limit(p_user_id, p_ip_address)
rate_check ==
    /\ calls < MaxRateCalls
    /\ calls' = calls + 1
    /\ \E u \in RateUsers :
          /\ frame' = [frame EXCEPT ![RateSession] =
                 [op |-> "check_rate_limit", p_user_id |-> u, now |-> clock]]
          /\ ret' = [ret EXCEPT ![RateSession] =
                 check_rate_limit(rate_limits, u, ClientIP, clock)]
    /\ UNCHANGED <<serverVars, clock, ledgerVars, pc, gatewayVars>>

\* SELECT record_rate_limit_usage(p_user_id, p_ip_address): one statement
rate_record ==
    /\ calls < MaxRateCalls
    /\ calls' = calls + 1
    /\ \E u \in RateUsers :
          LET r == record_rate_limit_usage(rate_limits, u, ClientIP, clock)
          IN  /\ rate_limits' = r.rows
              /\ recorded' = CountCall(recorded, RateKey(u, ClientIP, clock))
              /\ frame' = [frame EXCEPT ![RateSession] =
                     [op |-> "record_rate_limit_usage", p_user_id |-> u, now |-> clock]]
              /\ ret' = [ret EXCEPT ![RateSession] = [result |-> r.result]]
    /\ UNCHANGED <<serverVars, clock, ledgerVars, pc, response, llm_outcome, requests>>

\* rateLimitService.checkRateLimit(identifier, identifierType)
service_check ==
    /\ calls < MaxRateCalls
    /\ calls' = calls + 1
    /\ \E userType \in UserTypes, h \in HourlyUsages, d \in DailyUsages :
          LET currentUsage == [hourly |-> h, daily |-> d]
          IN  /\ frame' = [frame EXCEPT ![RateSession] =
                     [op |-> "checkRateLimit", userType |-> userType,
                      currentUsage |-> currentUsage]]
              /\ ret' = [ret EXCEPT ![RateSession] =
                     RateLimitService_checkRateLimit(currentUsage,
                                                     RateLimitService_limits[userType])]
    /\ UNCHANGED <<serverVars, clock, ledgerVars, pc, gatewayVars>>

NextRate ==
    \/ Tick
    \/ rate_check
    \/ rate_record
    \/ service_check

SpecRate == InitRate /\ [][NextRate]_vars

\* ========================================================= cost estimators
MaxEstimates == 2   \* estimates computed in one behaviour of SpecCost
TokenCounts == {0, 1, 100, 500, 1000}   \* prompt_tokens, completion_tokens

\* a / b rounded to the nearest integer, halves up: what assigning a numeric
\* to a DECIMAL(p, s) variable does to the digits beyond s
RoundDiv(a, b) == (a + b \div 2) \div b

\* functions.sql, calculate_credits_required, in hundredths of a credit.
\* v_input_ratio is DECIMAL(10,6), v_weighted_tokens and v_credits_required
\* are DECIMAL(10,2): each assignment rounds, and CEIL(v * 100) / 100 of a
\* value that already has two decimals returns it unchanged.
calculate_credits_required(p_prompt_tokens, p_completion_tokens, v_config) ==
    LET v_input_ratio == RoundDiv(v_config.input_cost_per_1m_tokens * 1000000,
                                  v_config.input_cost_per_1m_tokens
                                      + v_config.output_cost_per_1m_tokens)
        v_output_ratio == 1000000 - v_input_ratio
        v_weighted_tokens == RoundDiv(p_prompt_tokens * v_input_ratio
                                          + p_completion_tokens * v_output_ratio, 10000)
        v_credits_required == RoundDiv(v_weighted_tokens * v_config.credits_per_1k_milli,
                                       1000000)
    IN  v_credits_required

\* calculateCreditsRequired of the provider integrations, in hundredths:
\* Math.ceil(credits * 10) / 10
providers_calculateCreditsRequired(tokens, modelConfig) ==
    10 * CeilDiv((tokens.prompt_tokens * modelConfig.input_cost_per_1m_tokens
                    + tokens.completion_tokens * modelConfig.output_cost_per_1m_tokens)
                 * modelConfig.credits_per_1k_milli,
                 (modelConfig.input_cost_per_1m_tokens
                    + modelConfig.output_cost_per_1m_tokens) * 100000)

CostSession == "s1"

\* the estimators applied to one usage and one catalog entry
estimate ==
    /\ calls < MaxEstimates
    /\ calls' = calls + 1
    /\ \E m \in DOMAIN llm_provider_configs, p \in TokenCounts, c \in TokenCounts :
          LET tokens == [prompt_tokens |-> p, completion_tokens |-> c]
              config == llm_provider_configs[m]
          IN  /\ frame' = [frame EXCEPT ![CostSession] =
                     [op |-> "estimate", model |-> m, tokens |-> tokens]]
              /\ ret' = [ret EXCEPT ![CostSession] =
                     [sql |-> calculate_credits_required(p, c, config),
                      js |-> calculateCreditsRequired(tokens, config),
                      providers |-> providers_calculateCreditsRequired(tokens, config)]]
    /\ UNCHANGED <<serverVars, clock, ledgerVars, pc, gatewayVars>>

\* the estimators applied to the same total once as prompt tokens only and
\* once as completion tokens only
estimate_split ==
    /\ calls < MaxEstimates
    /\ calls' = calls + 1
    /\ \E m \in DOMAIN llm_provider_configs, t \in TokenCounts :
          LET all_input == [prompt_tokens |-> t, completion_tokens |-> 0]
              all_output == [prompt_tokens |-> 0, completion_tokens |-> t]
              config == llm_provider_configs[m]
          IN  /\ frame' = [frame EXCEPT ![CostSession] =
                     [op |-> "estimate_split", model |-> m, total |-> t]]
              /\ ret' = [ret EXCEPT ![CostSession] =
                     [js_input |-> calculateCreditsRequired(all_input, config),
                      js_output |-> calculateCreditsRequired(all_output, config),
                      sql_input |-> calculate_credits_required(t, 0, config),
                      sql_output |-> calculate_credits_required(0, t, config)]]
    /\ UNCHANGED <<serverVars, clock, ledgerVars, pc, gatewayVars>>

NextCost ==
    \/ estimate
    \/ estimate_split

InitCost ==
    /\ InitLedger(0, 0)
    /\ ServerStart
    /\ rate_limits = [k \in {} |-> 0]
    /\ recorded = [k \in {} |-> 0]

SpecCost == InitCost /\ [][NextCost]_vars

\* ------------------------------------- the estimators over any catalog row
\* rows the CHECKs of llm_provider_configs admit: credits_per_1k_tokens > 0,
\* input_cost_per_1m_tokens >= 0, output_cost_per_1m_tokens >= 0
UnitCosts == {0, 3, 15}
CreditsPer1kMilli == {50, 500}
AdmissibleConfigs ==
    [credits_per_1k_milli : CreditsPer1kMilli,
     input_cost_per_1m_tokens : UnitCosts,
     output_cost_per_1m_tokens : UnitCosts]

\* what a division by input cost + output cost yields when the sum is 0:
\* 0 / 0 is NaN in JavaScript, and every later operation on NaN is NaN;
\* PostgreSQL raises division_by_zero
NaN == [finite |-> FALSE]
division_by_zero == [raised |-> "division_by_zero"]
Finite(credits) == [finite |-> TRUE, credits |-> credits]
Returns(credits) == [raised |-> "none", credits |-> credits]

calculateCreditsRequired_result(tokens, config) ==
    IF config.input_cost_per_1m_tokens + config.output_cost_per_1m_tokens = 0
    THEN NaN
    ELSE Finite(calculateCreditsRequired(tokens, config))

calculate_credits_required_result(p_prompt_tokens, p_completion_tokens, v_config) ==
    IF v_config.input_cost_per_1m_tokens + v_config.output_cost_per_1m_tokens = 0
    THEN division_by_zero
    ELSE Returns(calculate_credits_required(p_prompt_tokens, p_completion_tokens, v_config))

\* the estimators applied to one usage and one admissible catalog row
estimate_admissible ==
    /\ calls < MaxEstimates
    /\ calls' = calls + 1
    /\ \E config \in AdmissibleConfigs, p \in TokenCounts, c \in TokenCounts :
          LET tokens == [prompt_tokens |-> p, completion_tokens |-> c]
          IN  /\ frame' = [frame EXCEPT ![CostSession] =
                     [op |-> "estimate_admissible", config |-> config, tokens |-> tokens]]
              /\ ret' = [ret EXCEPT ![CostSession] =
                     [sql |-> calculate_credits_required_result(p, c, config),
                      js |-> calculateCreditsRequired_result(tokens, config)]]
    /\ UNCHANGED <<serverVars, clock, ledgerVars, pc, gatewayVars>>

NextCatalog == estimate_admissible

SpecCatalog == InitCost /\ [][NextCatalog]_vars

\* the gateway from a table of rate_limits rows that may hold full windows
SeedWindows == {<<0, 0>>, <<100, 10>>}
InitOrder ==
    /\ \E n \in SeedFreeUses : InitLedger(n, 0)
    /\ ServerStart
    /\ \E w \in SeedWindows :
          /\ rate_limits = SeedRateLimits(w[1], w[2])
          /\ recorded = SeedRateLimits(w[1], w[2])

SpecOrder == InitOrder /\ [][NextGateway]_vars

\* the gateway serving two requests of the user u1 for a known model at a
\* time.  Every await of the handler settles: the database answers each call
\* and the provider call returns or throws.
InitLive ==
    /\ InitLedger(9, 0)
    /\ ServerStart
    /\ rate_limits = [k \in {} |-> 0]
    /\ recorded = [k \in {} |-> 0]

NextLive ==
    \/ \E s \in Sessions : gateway_receive_from(s, {"POST"}, {"u1"}, {"claude-3-opus"})
    \/ \E s \in Sessions : gateway_authorize(s)
    \/ \E s \in Sessions : gateway_llm(s)
    \/ \E s \in Sessions : gateway_consume(s)
    \/ \E s \in Sessions : gateway_record(s)

SpecLive ==
    /\ InitLive
    /\ [][NextLive]_vars
    /\ \A s \in Sessions :
          /\ WF_vars(gateway_authorize(s))
          /\ WF_vars(gateway_llm(s))
          /\ WF_vars(gateway_consume(s))
          /\ WF_vars(gateway_record(s))

\* =============================================== api/production-server.js
MaxServerRequests == 2
MaxServerClock == 60

\* middleware/security.js: windowMs (in seconds) and max of the two limiters
\* the server mounts
rateLimiters ==
    [llmQuery |-> [windowMs |-> 60, max |-> 10],
     payment |-> [windowMs |-> 60, max |-> 5]]

ClientIPs == {"ip1", "ip2"}
StripeIP == "ip1"
ServerInstants == {t \in 0..MaxServerClock : t % rateLimiters.llmQuery.windowMs = 0}
RequestBodies == {"valid", "invalid", "not_json", "too_large"}
LLMPaths == {"/api/llm/query", "/api/llm/providers"}
EventTypes == {"checkout.session.completed", "payment_intent.succeeded",
               "payment_intent.payment_failed", "invoice.payment_succeeded",
               "customer.created"}


\* keyGenerator: req.user?.id || req.ip; nothing in the server sets req.user
keyGenerator(ip) == ip

\* the store of rateLimit(): a key's window opens with its first hit and
\* lasts windowMs; the hits of a window that is over are forgotten
WindowOpen(name, key) ==
    /\ <<name, key>> \in DOMAIN limiter
    /\ server_clock < limiter[<<name, key>>].resetTime

Hit(name, key) ==
    IF WindowOpen(name, key)
    THEN [limiter[<<name, key>>] EXCEPT !.totalHits = @ + 1]
    ELSE [totalHits |-> 1, resetTime |-> server_clock + rateLimiters[name].windowMs]

\* rateLimit(): the request goes on when the hits of the window, this one
\* included, do not exceed max
WithinLimit_broken(name, hit) == hit.totalHits <= rateLimiters[name].max + 1
WithinLimit(name, hit) == hit.totalHits <= rateLimiters[name].max

CountHit(name, key) ==
    limiter' = [k \in DOMAIN limiter \cup {<<name, key>>} |->
                   IF k = <<name, key>> THEN Hit(name, key) ELSE limiter[k]]

\* the limiter's store when the model starts: the client ip1 has already
\* made h queries and w webhook calls in the windows opened at 0
SeedHits == {<<0, 0>>, <<9, 4>>}
SeedLimiter(h, w) ==
    [k \in (IF h > 0 THEN {<<"llmQuery", "ip1">>} ELSE {})
           \cup (IF w > 0 THEN {<<"payment", "ip1">>} ELSE {}) |->
        [totalHits |-> IF k[1] = "llmQuery" THEN h ELSE w,
         resetTime |-> rateLimiters[k[1]].windowMs]]

InitServer ==
    /\ InitLedger(0, 0)
    /\ rate_limits = [k \in {} |-> 0]
    /\ recorded = [k \in {} |-> 0]
    /\ server_clock = 0
    /\ \E hw \in SeedHits :
          /\ limiter = SeedLimiter(hw[1], hw[2])
          /\ reached = [k \in (IF hw[1] > 0 THEN {"ip1"} ELSE {}) |-> hw[1]]
    /\ grants = [t \in {} |-> 0]

server_tick ==
    /\ \E t \in ServerInstants : t > server_clock /\ server_clock' = t
    /\ UNCHANGED <<clock, ledgerVars, pc, frame, ret, calls, gatewayVars,
                   limiter, reached, grants>>

\* the requests that entered the query handler in the window this hit of
\* the key falls in
InWindow(key) ==
    [k \in DOMAIN reached \cup {key} |->
        IF k = key /\ ~(WindowOpen("llmQuery", key) /\ key \in DOMAIN reached)
        THEN 0 ELSE reached[k]]

\* what the server answers: status, the number of the request, the request
ServerResponse(status, n, req) == [status |-> status, n |-> n, req |-> req]

\* a request to /api/llm: validateContentType, requestSizeLimit,
\* rateLimiters.llmQuery, then GET /api/llm/providers, or
\* validate(schemas.llmQuery) and the query handler up to its await
server_llm_request(s, ip, path, body) ==
    LET req == [ip |-> ip, path |-> path, body |-> body]
        key == keyGenerator(ip)
        answer(status) ==
            /\ response' = [response EXCEPT ![s] = ServerResponse(status, requests + 1, req)]
            /\ UNCHANGED <<pc, frame>>
    IN  /\ pc[s] = "idle"
        /\ requests < MaxServerRequests
        /\ requests' = requests + 1
        /\ IF path = "/api/llm/query" /\ body = "not_json"
           THEN answer(400) /\ UNCHANGED <<limiter, reached>>
           ELSE IF body = "too_large"
           THEN answer(413) /\ UNCHANGED <<limiter, reached>>
           ELSE /\ CountHit("llmQuery", key)
                /\ IF ~WithinLimit("llmQuery", Hit("llmQuery", key))
                   THEN answer(429) /\ reached' = InWindow(key)
                   ELSE IF path = "/api/llm/providers"
                   THEN answer(200) /\ reached' = InWindow(key)
                   ELSE IF body = "invalid"
                   THEN answer(400) /\ reached' = InWindow(key)
                   ELSE /\ pc' = [pc EXCEPT ![s] = "srv_query"]
                        /\ frame' = [frame EXCEPT ![s] = [op |-> "srv_query", req |-> req,
                                                          n |-> requests + 1]]
                        /\ reached' = [InWindow(key) EXCEPT ![key] = @ + 1]
                        /\ UNCHANGED response
        /\ UNCHANGED <<clock, ledgerVars, ret, calls, rate_limits, llm_outcome, recorded,
                       server_clock, grants>>

\* callLLMProvider returns, or throws and the mock response is sent instead
server_llm_respond(s, is_real_response) ==
    /\ pc[s] = "srv_query"
    /\ llm_outcome' = [llm_outcome EXCEPT ![s] = IF is_real_response THEN "completed" ELSE "failed"]
    /\ Respond(s, ServerResponse(200, frame[s].n, frame[s].req))
    /\ UNCHANGED <<clock, ledgerVars, ret, calls, rate_limits, requests, recorded, serverVars>>

\* handleWebhook: the result, and whether processCreditsGrant was called
handleWebhook_broken(signature_ok, event_type, stripe_ok) ==
    IF event_type = "checkout.session.completed"
    THEN IF stripe_ok THEN [success |-> TRUE, grant |-> TRUE] ELSE [success |-> FALSE, grant |-> FALSE]
    ELSE IF event_type = "payment_intent.succeeded"
    THEN [success |-> TRUE, grant |-> TRUE]
    ELSE [success |-> signature_ok, grant |-> FALSE]
handleWebhook(signature_ok, event_type, stripe_ok) ==
    IF ~signature_ok
    THEN [success |-> FALSE, grant |-> FALSE]
    ELSE IF event_type = "checkout.session.completed"
    THEN IF stripe_ok THEN [success |-> TRUE, grant |-> TRUE] ELSE [success |-> FALSE, grant |-> FALSE]
    ELSE IF event_type = "payment_intent.succeeded"
    THEN [success |-> TRUE, grant |-> TRUE]
    ELSE [success |-> TRUE, grant |-> FALSE]

\* POST /api/stripe/webhook with a JSON body from the payment provider's
\* address: rateLimiters.payment, then the route
server_webhook(s, signature_ok, event_type, stripe_ok) ==
    LET ip == StripeIP
        req == [ip |-> ip, path |-> "/api/stripe/webhook", signature_ok |-> signature_ok,
                event_type |-> event_type]
        result == handleWebhook(signature_ok, event_type, stripe_ok)
        answer(status) ==
            response' = [response EXCEPT ![s] = ServerResponse(status, requests + 1, req)]
    IN  /\ pc[s] = "idle"
        /\ requests < MaxServerRequests
        /\ requests' = requests + 1
        /\ CountHit("payment", ip)
        /\ IF ~WithinLimit("payment", Hit("payment", ip))
           THEN answer(429) /\ UNCHANGED grants
           ELSE /\ answer(IF result.success THEN 200 ELSE 400)
                /\ grants' = IF result.grant
                             THEN [t \in DOMAIN grants \cup {event_type} |->
                                      IF t # event_type THEN grants[t]
                                      ELSE IF t \in DOMAIN grants THEN grants[t] + 1 ELSE 1]
                             ELSE grants
        /\ UNCHANGED <<clock, ledgerVars, pc, frame, ret, calls, rate_limits, llm_outcome,
                       recorded, server_clock, reached>>

NextServer ==
    \/ server_tick
    \/ \E s \in Sessions, ip \in ClientIPs, path \in LLMPaths, body \in RequestBodies :
          server_llm_request(s, ip, path, body)
    \/ \E s \in Sessions, is_real_response \in BOOLEAN : server_llm_respond(s, is_real_response)
    \/ \E s \in Sessions, signature_ok \in BOOLEAN, event_type \in EventTypes,
          stripe_ok \in BOOLEAN :
          server_webhook(s, signature_ok, event_type, stripe_ok)

SpecServer == InitServer /\ [][NextServer]_vars

\* ======================================================= ledger properties
Accounts == DOMAIN credit_accounts
NoCallRunning == \A s \in Sessions : pc[s] = "idle"
Returned(s, field) == field \in DOMAIN ret[s]

\* C1: under any interleaving of concurrent consume_credits calls (and of
\* the other ledger calls) the committed balance of an account is never
\* negative.
C1_BalanceNeverNegative ==
    \A u \in Accounts : credit_accounts[u].balance >= 0

\* two paid debits raced against a balance that could not cover both
C1_Witness ==
    /\ \A s \in Sessions :
          Returned(s, "used_free_credit") /\ ret[s].success /\ ~ret[s].used_free_credit
    /\ expected["u1"] < 0
    /\ credit_accounts["u1"].balance >= 0

\* C2 (as claimed): once every call has returned, the balance is the initial
\* balance plus every amount a successful add_credits added minus every
\* amount a successful consume_credits took from the balance.
C2_NoLostUpdate ==
    NoCallRunning => \A u \in Accounts : credit_accounts[u].balance = expected[u]

\* signed amounts of the user's transactions, in creation order, daily_free left out
RECURSIVE Replay(_, _)
Replay(txs, u) ==
    IF txs = <<>> THEN 0
    ELSE LET t == txs[Len(txs)]
         IN  Replay(SubSeq(txs, 1, Len(txs) - 1), u)
             + (IF t.user_id = u /\ t.transaction_type # "daily_free" THEN t.amount ELSE 0)

\* C3: after any sequence of add_credits and consume_credits calls made one
\* after the other, replaying the account's transactions reproduces its
\* balance.
C3_ReplayReproducesBalance ==
    \A u \in Accounts : Replay(credit_transactions, u) = credit_accounts[u].balance

TypesLogged == {credit_transactions[i].transaction_type : i \in DOMAIN credit_transactions}

\* the log holds a purchase, a consumption and a free use, and money is left
C3_Witness ==
    /\ {"purchase", "consumption", "daily_free"} \subseteq TypesLogged
    /\ credit_accounts["u1"].balance > 0
    /\ NoCallRunning

\* C4: daily_free_credits_used stays within 0..DAILY_FREE_LIMIT in every
\* reachable state, whatever the interleaving of the ledger calls.
C4_FreeUsedWithinLimit ==
    \A u \in Accounts :
        /\ credit_accounts[u].daily_free_credits_used >= 0
        /\ credit_accounts[u].daily_free_credits_used <= DAILY_FREE_LIMIT

\* two free uses raced for the last free credit and one of them was refused
C4_Witness ==
    /\ credit_accounts["u1"].daily_free_credits_used = DAILY_FREE_LIMIT
    /\ \E s \in Sessions :
          Returned(s, "error") /\ ret[s].error = "valid_daily_free_credits"

\* C5 (as claimed): a row whose window is current is not reset again, so the
\* free uses it records are never taken back.
C5_ResetOncePerWindow ==
    [][\A u \in Accounts :
          ~ResetDue(credit_accounts[u], clock) =>
              credit_accounts'[u].daily_free_credits_used
                  >= credit_accounts[u].daily_free_credits_used]_vars

UsagesOf(r) == {i \in DOMAIN llm_usage : llm_usage[i].request_id = r}

\* C6 (as claimed): consume_credits called again with the same request_id
\* leaves one usage row, hence one transaction and one debit, for it.
C6_SettleIdempotent ==
    \A r \in RequestIds : Cardinality(UsagesOf(r)) <= 1

PurchasesOf(pi) ==
    {i \in DOMAIN credit_transactions :
        /\ credit_transactions[i].transaction_type = "purchase"
        /\ credit_transactions[i].stripe_payment_intent_id = pi}

\* C7 (as claimed): add_credits called again with the same payment intent
\* credits the account once.
C7_GrantOncePerReference ==
    \A pi \in PaymentIntents : Cardinality(PurchasesOf(pi)) <= 1

\* C8 (as claimed): a successful consume_credits of cost c takes
\* min(c, free remainder) from the free allowance, raising
\* daily_free_credits_used by that many credits, and the rest from the
\* balance.
C8_FreeAllowanceFirst ==
    [][\A s \in Sessions :
          (pc[s] = "consume_credits" /\ pc'[s] = "idle" /\ ret'[s].success) =>
              LET u == frame[s].args.p_user_id
                  c == frame[s].args.p_amount
                  before == credit_accounts[u]
                  after == credit_accounts'[u]
                  used == IF ResetDue(before, frame[s].now) THEN 0
                          ELSE before.daily_free_credits_used
                  f == (DAILY_FREE_LIMIT - used) * CreditUnit
              IN  /\ after.daily_free_credits_used * CreditUnit
                         = used * CreditUnit + Min(c, f)
                  /\ after.balance = before.balance - (c - Min(c, f))]_vars

\* ====================================================== gateway properties
\* free uses left in the window of the row, at hour now
FreeLeft(row, now) ==
    DAILY_FREE_LIMIT - (IF ResetDue(row, now) THEN 0 ELSE row.daily_free_credits_used)

\* C9 (as stated): the credit check of a paid query denies exactly when
\* balance + free remainder is below the estimated cost, and the denial
\* reports required = the estimate and available = that sum.
C9_DenialReportsSum ==
    [][\A s \in Sessions :
          (pc[s] = "gw_balance" /\ pc'[s] # "gw_balance") =>
              LET f == frame[s]
                  row == credit_accounts[f.req.user_id]
                  available == row.balance + FreeLeft(row, f.now) * CreditUnit
              IN  IF available < f.estimatedCredits
                  THEN /\ response'[s].status = 402
                       /\ response'[s].required = f.estimatedCredits
                       /\ response'[s].available = available
                  ELSE pc'[s] = "gw_llm"]_vars

\* C9 (amended): the credit check of a paid query denies exactly when
\* balance + free remainder is below the estimated cost; the denial reports
\* required = the estimate, available = the balance alone and
\* daily_free_remaining = the free remainder; otherwise the request goes on
\* to the provider.
C9_DenialReportsBalance ==
    [][\A s \in Sessions :
          (pc[s] = "gw_balance" /\ pc'[s] # "gw_balance") =>
              LET f == frame[s]
                  row == credit_accounts[f.req.user_id]
                  available == row.balance + FreeLeft(row, f.now) * CreditUnit
              IN  IF available < f.estimatedCredits
                  THEN /\ response'[s].status = 402
                       /\ response'[s].error = "Insufficient credits"
                       /\ response'[s].required = f.estimatedCredits
                       /\ response'[s].available = row.balance
                       /\ response'[s].daily_free_remaining = FreeLeft(row, f.now)
                  ELSE /\ pc'[s] = "gw_llm"
                       /\ response'[s] = response[s]]_vars

\* balance 0, allowance used up, estimate 3.00: denied with required 3.00, available 0
C9_Witness ==
    \E s \in Sessions :
        response[s] = [status |-> 402, error |-> "Insufficient credits",
                       required |-> 300, available |-> 0, daily_free_remaining |-> 0]

UpstreamFailures == {"failed", "timeout", "cancelled"}

\* C10: when the upstream call of a registered user's request does not
\* complete (failed, timeout or cancelled), a usage row with
\* credits_consumed = 0 and the status of the outcome is written, no
\* transaction is written and the accounts are unchanged.
C10_ZeroChargeWithOutcomeStatus ==
    [][\A s \in Sessions :
          (/\ pc[s] = "gw_llm"
           /\ llm_outcome'[s] \in UpstreamFailures
           /\ frame[s].req.user_id \in RegisteredUsers) =>
              /\ Len(llm_usage') = Len(llm_usage) + 1
              /\ llm_usage'[Len(llm_usage')].credits_consumed = 0
              /\ llm_usage'[Len(llm_usage')].status = llm_outcome'[s]
              /\ credit_transactions' = credit_transactions
              /\ credit_accounts' = credit_accounts]_vars

\* ==================================================== settlement properties
\* C11: when the cost of a consume_credits call exceeds what the account can
\* cover (balance plus free remainder), the call charges exactly what is
\* available: it writes a usage row whose credits_consumed is
\* min(cost, available) and leaves balance >= 0.
C11_ShortfallClamped ==
    [][\A s \in Sessions :
          (pc[s] = "consume_credits" /\ pc'[s] = "idle") =>
              LET f == frame[s]
                  u == f.args.p_user_id
                  row == credit_accounts[u]
                  available == row.balance + FreeLeft(row, f.now) * CreditUnit
                  cost == f.args.p_amount
              IN  cost > available =>
                      /\ Len(llm_usage') = Len(llm_usage) + 1
                      /\ llm_usage'[Len(llm_usage')].credits_consumed = Min(cost, available)
                      /\ credit_accounts'[u].balance >= 0]_vars

\* C12: every successful consume_credits call made with usage data writes
\* exactly one transaction, of type daily_free when the debit was a free use
\* (balance untouched) and of type consumption when the balance was debited,
\* and exactly one usage row whose transaction_id is that transaction.
C12_OneTransactionPerDebit ==
    [][\A s \in Sessions :
          (pc[s] = "consume_credits" /\ pc'[s] = "idle" /\ ret'[s].success) =>
              LET u == frame[s].args.p_user_id
                  n == Len(credit_transactions)
                  m == Len(llm_usage)
                  freeDebit == credit_accounts'[u].balance = credit_accounts[u].balance
              IN  /\ Len(credit_transactions') = n + 1
                  /\ SubSeq(credit_transactions', 1, n) = credit_transactions
                  /\ credit_transactions'[n + 1].user_id = u
                  /\ credit_transactions'[n + 1].transaction_type =
                         (IF freeDebit THEN "daily_free" ELSE "consumption")
                  /\ freeDebit =>
                         credit_accounts'[u].daily_free_credits_used =
                             DAILY_FREE_LIMIT - FreeLeft(credit_accounts[u], frame[s].now) + 1
                  /\ ~freeDebit =>
                         credit_accounts'[u].balance =
                             credit_accounts[u].balance - frame[s].args.p_amount
                  /\ Len(llm_usage') = m + 1
                  /\ SubSeq(llm_usage', 1, m) = llm_usage
                  /\ llm_usage'[m + 1].user_id = u
                  /\ llm_usage'[m + 1].transaction_id = credit_transactions'[n + 1].id
                  /\ ret'[s].transaction_id = credit_transactions'[n + 1].id
                  /\ ret'[s].usage_id = llm_usage'[m + 1].id]_vars

\* a paid debit and then a free use, each with its transaction and usage row
C12_Witness ==
    /\ NoCallRunning
    /\ \E i, j \in 1..Len(llm_usage) :
          /\ i < j
          /\ credit_transactions[llm_usage[i].transaction_id].transaction_type = "consumption"
          /\ credit_transactions[llm_usage[j].transaction_id].transaction_type = "daily_free"
    /\ Returned(SeqSession, "used_free_credit")
    /\ ret[SeqSession].used_free_credit
    /\ ret[SeqSession].usage_id = Len(llm_usage)

\* ==================================================== rate limit properties
\* request_count of the row of key, 0 when there is none
RequestCount(rows, key) == IF key \in DOMAIN rows THEN rows[key] ELSE 0

\* hourly limit of the tier of a caller of check_rate_limit
HourlyLimit(p_user_id) == IF p_user_id # NULL THEN 100 ELSE 10

C15_RecordIsUpsertAndIncrement ==
    \A key \in DOMAIN recorded :
        key \in DOMAIN rate_limits /\ rate_limits[key] = recorded[key]

\* ================================================= request error properties
\* C16: a request for a (provider, model) without an active catalog entry is
\* answered with a typed UnknownModel result, never with the generic internal
\* failure.  The catalog lookup is the only thing that can throw before the
\* provider is called, so no request is answered 500 in the step that
\* receives it.
C16_UnknownModelIsTyped ==
    [][(requests' = requests + 1 /\ pc'[GatewaySession] = "idle"
          /\ response'[GatewaySession].status \notin {405, 400, 429}) =>
              /\ response'[GatewaySession].status # 500
              /\ response'[GatewaySession].error = "UnknownModel"]_vars

\* C19: the first consume_credits, get_user_credit_balance or add_credits
\* call for a user without a credit account creates the account and goes on;
\* no call fails because the account is absent.
C19_LazyProvisioning ==
    \A s \in Sessions : ret[s] # NotFound

\* ================================================ cost estimator properties
\* exact cost of a usage in hundredths of a credit, as the fraction
\* CostNumerator / CostDenominator
CostNumerator(tokens, config) ==
    (tokens.prompt_tokens * config.input_cost_per_1m_tokens
        + tokens.completion_tokens * config.output_cost_per_1m_tokens)
    * config.credits_per_1k_milli
CostDenominator(config) ==
    (config.input_cost_per_1m_tokens + config.output_cost_per_1m_tokens) * 10000

\* r is the exact cost rounded up to the next hundredth
IsCeilOfCost(r, tokens, config) ==
    /\ r * CostDenominator(config) >= CostNumerator(tokens, config)
    /\ (r - 1) * CostDenominator(config) < CostNumerator(tokens, config)

\* C17: each cost estimator returns the exact weighted cost rounded up to
\* the 0.01 increment (never below the exact cost, less than 0.01 above it),
\* and the SQL and JavaScript estimators return the same value.
C17_EstimatorsRoundUpAndAgree ==
    frame[CostSession].op = "estimate" =>
        LET tokens == frame[CostSession].tokens
            config == llm_provider_configs[frame[CostSession].model]
            r == ret[CostSession]
        IN  /\ IsCeilOfCost(r.js, tokens, config)
            /\ IsCeilOfCost(r.sql, tokens, config)
            /\ IsCeilOfCost(r.providers, tokens, config)
            /\ r.sql = r.js

C20_ZeroCostLeavesLedgerAlone ==
    [][\A s \in Sessions :
          /\ pc'[s] = "gw_balance" => frame'[s].estimatedCredits > 0
          /\ (pc[s] = "gw_consume" /\ frame[s].estimatedCredits = 0
                 /\ frame[s].args.p_amount = 0) =>
                LET u == frame[s].args.p_user_id
                    row == credit_accounts[u]
                IN  /\ Len(llm_usage') = Len(llm_usage) + 1
                    /\ llm_usage'[Len(llm_usage')].credits_consumed = 0
                    /\ credit_transactions' = credit_transactions
                    /\ credit_accounts'[u].balance = row.balance
                    /\ credit_accounts'[u].daily_free_credits_used =
                           DAILY_FREE_LIMIT - FreeLeft(row, frame[s].now)
          /\ (pc[s] = "gw_record" /\ frame[s].estimatedCredits = 0
                 /\ frame[s].args.p_amount = 0) =>
                LET key == RateKey(frame[s].req.user_id, ClientIP, clock)
                IN  RequestCount(rate_limits', key) = RequestCount(rate_limits, key) + 1]_vars

\* ================================================ independence of identities
\* rows of a table that belong to user u, in order
RECURSIVE RowsOf(_, _)
RowsOf(rows, u) ==
    IF rows = <<>> THEN <<>>
    ELSE IF rows[1].user_id = u THEN <<rows[1]>> \o RowsOf(Tail(rows), u)
    ELSE RowsOf(Tail(rows), u)

LLMRequest(r) == r.status # 0 /\ r.req.path \in LLMPaths

\* the step receives a request of session s for /api/llm, and that request
Received(s) ==
    /\ requests' = requests + 1
    /\ pc[s] = "idle"
    /\ pc'[s] = "srv_query" \/ response'[s] # response[s]
ReceivedReq(s) == IF pc'[s] = "srv_query" THEN frame'[s].req ELSE response'[s].req

\* the key's window is open and has had max hits
Exhausted(ip) ==
    /\ WindowOpen("llmQuery", keyGenerator(ip))
    /\ limiter[<<"llmQuery", keyGenerator(ip)>>].totalHits >= rateLimiters.llmQuery.max

ReceivedWebhook(s) ==
    /\ requests' = requests + 1
    /\ response'[s] # response[s]
    /\ response'[s].req.path = "/api/stripe/webhook"

ConfirmedCharge == {"checkout.session.completed", "payment_intent.succeeded"}

\* processCreditsGrant is called only while a webhook is handled, and only
\* for a verified event that reports a completed checkout or a succeeded
\* payment intent
GrantOnlyForConfirmedCharge ==
    /\ grants' # grants => \E s \in Sessions : ReceivedWebhook(s)
    /\ \A s \in Sessions : ReceivedWebhook(s) /\ grants' # grants =>
          /\ response'[s].req.signature_ok
          /\ response'[s].req.event_type \in ConfirmedCharge
          /\ response'[s].status = 200

StepRank(p) ==
    CASE p = "idle" -> 0 [] p = "gw_balance" -> 1 [] p = "gw_llm" -> 2
      [] p = "gw_consume" -> 3 [] p = "gw_record" -> 4

C25_ResetAtBoundary ==
    [][\A s \in Sessions :
          (pc[s] \in {"consume_credits", "get_user_credit_balance"} /\ pc'[s] = "idle") =>
              LET u == frame[s].args.p_user_id
                  now == frame[s].now
                  before == credit_accounts[u]
                  after == credit_accounts'[u]
              IN  IF now >= before.daily_free_credits_reset_at + Day
                  THEN /\ after.daily_free_credits_reset_at = now
                       /\ after.daily_free_credits_used <= 1
                  ELSE /\ after.daily_free_credits_reset_at = before.daily_free_credits_reset_at
                       /\ after.daily_free_credits_used >= before.daily_free_credits_used]_vars


\* ------------------------------------------------------- lifetime totals
\* C26 (as claimed): lifetime_purchased and lifetime_consumed are never
\* negative and never decrease, whatever amounts add_credits and
\* consume_credits are called with, and lifetime_purchased changes only in an
\* add_credits call that writes a purchase transaction.
C26_LifetimeTotalsMonotone ==
    [][\A u \in Accounts :
          LET before == credit_accounts[u]
              after == credit_accounts'[u]
          IN  /\ after.lifetime_purchased >= before.lifetime_purchased
              /\ after.lifetime_consumed >= before.lifetime_consumed
              /\ after.lifetime_purchased >= 0
              /\ after.lifetime_consumed >= 0
              /\ after.lifetime_purchased # before.lifetime_purchased =>
                    /\ \E s \in Sessions : pc[s] = "add_credits" /\ pc'[s] = "idle"
                    /\ Len(credit_transactions') = Len(credit_transactions) + 1
                    /\ credit_transactions'[Len(credit_transactions')].transaction_type
                           = "purchase"]_vars


\* ------------------------------------------------------------ error paths
\* C27: a consume_credits call that reports failure appends no transaction
\* and no usage row and leaves balance, lifetime_consumed and
\* daily_free_credits_used as they were, except that daily_free_credits_used
\* may have been reset to 0 when the reset was due; balance is >= 0 and
\* daily_free_credits_used is within 0..10 afterwards.
C27_FailureLeavesAccountAlone ==
    [][\A s \in Sessions :
          (pc[s] = "consume_credits" /\ pc'[s] = "idle" /\ ~ret'[s].success) =>
              LET u == frame[s].args.p_user_id
                  before == credit_accounts[u]
                  after == credit_accounts'[u]
              IN  /\ credit_transactions' = credit_transactions
                  /\ llm_usage' = llm_usage
                  /\ after.balance = before.balance
                  /\ after.lifetime_consumed = before.lifetime_consumed
                  /\ \/ after.daily_free_credits_used = before.daily_free_credits_used
                     \/ /\ ResetDue(before, frame[s].now)
                        /\ after.daily_free_credits_used = 0
                  /\ after.balance >= 0
                  /\ after.daily_free_credits_used \in 0..DAILY_FREE_LIMIT]_vars

C27_Witness ==
    \E s \in Sessions :
        /\ pc[s] = "idle"
        /\ Returned(s, "error")
        /\ ret[s].error = "valid_daily_free_credits"
        /\ credit_accounts["u1"].daily_free_credits_used = DAILY_FREE_LIMIT


\* ------------------------------------------------------------ termination
\* the answers of the handler: settled, denied for rate limit, denied for
\* credits or failed consumption, failed upstream, rejected request
Outcomes == {200, 429, 402, 500, 400, 405}

C29_AuthorizedDebitSucceeds ==
    [][LET s == GatewaySession
           f == frame[s]
       IN  (/\ pc[s] = "gw_consume"
            /\ pc'[s] # "gw_consume"
            /\ f.estimatedCredits > 0
            /\ f.args.p_amount <= f.estimatedCredits) =>
               /\ ret'[s].success
               /\ pc'[s] = "gw_record"]_vars

C29_Witness ==
    LET r == response[GatewaySession]
    IN  /\ r.status = 200
        /\ "credit_info" \in DOMAIN r
        /\ r.credits_estimated > 0
        /\ r.credits_consumed > 0
        /\ r.credits_consumed <= r.credits_estimated
        /\ r.credit_info.used_free_credit
        /\ r.credit_info.daily_free_remaining = 0


\* ------------------------------------------------ estimators, any catalog
\* C30 (as claimed): for every catalog row the schema admits and all token
\* counts >= 0 both estimators return a finite credit amount >= 0, also for
\* a row whose input and output costs are both 0.
C30_EstimateFiniteNonNegative ==
    frame[CostSession].op = "estimate_admissible" =>
        /\ ret[CostSession].js.finite
        /\ ret[CostSession].js.credits >= 0
        /\ ret[CostSession].sql.raised = "none"
        /\ ret[CostSession].sql.credits >= 0

====
